---- MODULE Spec2Model ----
(***************************************************************************)
(* Model of mustafoyev-202/OPENAI_STT: the two Streamlit scripts           *)
(* src/app.py and src/main.py.  Each script uploads an audio file, calls   *)
(* a remote transcription service, a remote completion service and the     *)
(* local speaker-label normalizer format_speaker_labels, and renders the   *)
(* results.                                                                *)
(*                                                                         *)
(* A text is a sequence of one-character strings.                          *)
(***************************************************************************)
EXTENDS Integers, Sequences, FiniteSets, TLC

VARIABLES
    script,        \* which script is run: "app" (src/app.py) or "main" (src/main.py)
    reInlineFlag,  \* what re does with "(?i)" in the middle of a pattern:
                   \* "global" (Python <= 3.10) or "error" (Python >= 3.11)
    text,          \* normalizer specification: the input string
    npc,           \* normalizer specification: "ready", "once", "twice"
    res1,          \* result of format_speaker_labels(text)
    res2,          \* result of format_speaker_labels(res1.val)
    apiKey,        \* os.getenv("OPENAI_API_KEY"): "absent" or "present"
    pc,            \* the position of the script run
    tempExists,    \* the temporary copy of the upload is on disk
    tempPathBound, \* temp_path (app.py) / temp_file_path (main.py) is assigned
    calls,         \* the stage calls made so far, in order, with input and outcome
    loc,           \* the run's local values: transcript, diarized, formatted, uzbek, summary
    exc,           \* the exception raised in the run ("none" if none was)
    shown,         \* the UI elements rendered so far
    log            \* the messages given to logger.error

nvars == <<text, npc, res1, res2>>
pvars == <<apiKey, pc, tempExists, tempPathBound, calls, loc, exc, shown, log>>
vars == <<script, reInlineFlag, text, npc, res1, res2,
          apiKey, pc, tempExists, tempPathBound, calls, loc, exc, shown, log>>

Scripts == {"app", "main"}
InlineFlagPolicies == {"global", "error"}

(***************************************************************************)
(* Characters and character classes of Python's re (str patterns).         *)
(***************************************************************************)
NL == "\n"

\* \s, which is also what str.strip() removes: space, \t, \n, \r, \f, and
\* U+000B, U+001C..U+001F, U+0085, U+00A0, U+1680.  (U+2000..U+200A, U+2028,
\* U+2029, U+202F, U+205F, U+3000 are whitespace too; a string of this module
\* cannot hold them.)
IsSpace(c) == c \in {" ", "\t", "\n", "\r", "\f", "", "", "", "", "", "", " ", " "}

\* the decimal digits of other scripts that \d matches and a string of this
\* module can hold (U+06F0.., U+07C0.., U+09E6.., ...)
OtherDigits ==
    {
     "۰", "۱", "۲", "۳", "۴", "۵", "۶", "۷", "۸", "۹",
     "߀", "߁", "߂", "߃", "߄", "߅", "߆", "߇", "߈", "߉",
     "০", "১", "২", "৩", "৪", "৫", "৬", "৭", "৮", "৯",
     "૦", "૧", "૨", "૩", "૪", "૫", "૬", "૭", "૮", "૯",
     "௦", "௧", "௨", "௩", "௪", "௫", "௬", "௭", "௮", "௯",
     "೦", "೧", "೨", "೩", "೪", "೫", "೬", "೭", "೮", "೯",
     "෦", "෧", "෨", "෩", "෪", "෫", "෬", "෭", "෮", "෯",
     "໐", "໑", "໒", "໓", "໔", "໕", "໖", "໗", "໘", "໙",
     "႐", "႑", "႒", "႓", "႔", "႕", "႖", "႗", "႘", "႙",
     "០", "១", "២", "៣", "៤", "៥", "៦", "៧", "៨", "៩",
     "᧐", "᧑", "᧒", "᧓", "᧔", "᧕", "᧖", "᧗", "᧘", "᧙",
     "᪀", "᪁", "᪂", "᪃", "᪄", "᪅", "᪆", "᪇", "᪈", "᪉",
     "᪐", "᪑", "᪒", "᪓", "᪔", "᪕", "᪖", "᪗", "᪘", "᪙",
     "᮰", "᮱", "᮲", "᮳", "᮴", "᮵", "᮶", "᮷", "᮸", "᮹",
     "꣐", "꣑", "꣒", "꣓", "꣔", "꣕", "꣖", "꣗", "꣘", "꣙",
     "꧐", "꧑", "꧒", "꧓", "꧔", "꧕", "꧖", "꧗", "꧘", "꧙",
     "꧰", "꧱", "꧲", "꧳", "꧴", "꧵", "꧶", "꧷", "꧸", "꧹",
     "꯰", "꯱", "꯲", "꯳", "꯴", "꯵", "꯶", "꯷", "꯸", "꯹" }

\* \d
IsDigit(c) == c \in {"0", "1", "2", "3", "4", "5", "6", "7", "8", "9"} \cup OtherDigits

\* (?i): the letters of the word speaker compared without case.  (The flag
\* also lets U+017F stand for s and U+212A for k; a string of this module
\* cannot hold either.)
Lower(c) ==
    CASE c = "S" -> "s"
      [] c = "P" -> "p"
      [] c = "E" -> "e"
      [] c = "A" -> "a"
      [] c = "K" -> "k"
      [] c = "R" -> "r"
      [] OTHER -> c

SpeakerWord == <<"s", "p", "e", "a", "k", "e", "r">>

\* the replacement word of each script's canonical marker
CanonicalWord(s) ==
    IF s = "app"
    THEN <<"S", "u", "x", "b", "a", "t", "d", "o", "s", "h">>
    ELSE <<"S", "p", "e", "a", "k", "e", "r">>

\* the smallest index >= i of t whose character is not a space (Len(t)+1 if none)
RECURSIVE SkipSpaces(_, _)
SkipSpaces(t, i) ==
    IF i <= Len(t) /\ IsSpace(t[i]) THEN SkipSpaces(t, i + 1) ELSE i

\* the smallest index >= i of t whose character is not a digit
RECURSIVE SkipDigits(_, _)
SkipDigits(t, i) ==
    IF i <= Len(t) /\ IsDigit(t[i]) THEN SkipDigits(t, i + 1) ELSE i

\* the smallest index >= i of t whose character is not a newline
RECURSIVE SkipNewlines(_, _)
SkipNewlines(t, i) ==
    IF i <= Len(t) /\ t[i] = NL THEN SkipNewlines(t, i + 1) ELSE i

(***************************************************************************)
(* text.strip(): leading and trailing whitespace removed.                  *)
(***************************************************************************)
RECURSIVE LastNonSpace(_, _)
LastNonSpace(t, j) ==
    IF j >= 1 /\ IsSpace(t[j]) THEN LastNonSpace(t, j - 1) ELSE j

Strip(t) == SubSeq(t, SkipSpaces(t, 1), LastNonSpace(t, Len(t)))

(***************************************************************************)
(* re.sub(r'\n{3,}', '\n\n', t): every maximal run of three or more        *)
(* newlines becomes two newlines.                                          *)
(***************************************************************************)
RECURSIVE CollapseFrom(_, _)
CollapseFrom(t, i) ==
    IF i > Len(t) THEN <<>>
    ELSE LET j == SkipNewlines(t, i)
         IN  IF j - i >= 3 THEN <<NL, NL>> \o CollapseFrom(t, j)
             ELSE <<t[i]>> \o CollapseFrom(t, i + 1)

CollapseNewlines(t) == CollapseFrom(t, 1)

(***************************************************************************)
(* The marker pattern  \[?speaker\s*(\d+)\]?\s*:  with (?i) applied to     *)
(* the whole pattern.  NoMatch or [next, digits]: the index after the      *)
(* match and the text of group 1.                                          *)
(***************************************************************************)
NoMatch == [ok |-> FALSE, next |-> 0, digits |-> <<>>]

\* speaker\s*(\d+)\]?\s*:  matched at index i
MatchWordAt(t, i) ==
    LET a == i + Len(SpeakerWord)
        b == SkipSpaces(t, a)
        c == SkipDigits(t, b)
        d == IF c <= Len(t) /\ t[c] = "]" THEN c + 1 ELSE c
        e == SkipSpaces(t, d)
    IN  IF /\ a - 1 <= Len(t)
           /\ \A k \in 1..Len(SpeakerWord) : Lower(t[i + k - 1]) = SpeakerWord[k]
           /\ c > b
           /\ e <= Len(t)
           /\ t[e] = ":"
        THEN [ok |-> TRUE, next |-> e + 1, digits |-> SubSeq(t, b, c - 1)]
        ELSE NoMatch

\* the whole pattern matched at index i: the optional "[" is taken when present
MatchMarkerAt(t, i) ==
    IF i <= Len(t) /\ t[i] = "[" THEN MatchWordAt(t, i + 1) ELSE MatchWordAt(t, i)

(***************************************************************************)
(* re.sub(pattern, word + r' \1:', t): leftmost non-overlapping matches    *)
(* replaced by the canonical marker.                                       *)
(***************************************************************************)
RECURSIVE SubMarkersFrom(_, _, _)
SubMarkersFrom(t, i, word) ==
    IF i > Len(t) THEN <<>>
    ELSE LET m == MatchMarkerAt(t, i)
         IN  IF m.ok
             THEN word \o <<" ">> \o m.digits \o <<":">> \o SubMarkersFrom(t, m.next, word)
             ELSE <<t[i]>> \o SubMarkersFrom(t, i + 1, word)

CanonicalizeMarkers(t, word) == SubMarkersFrom(t, 1, word)

(***************************************************************************)
(* The lookahead  (?=<word> \d+:)  at index p, case-sensitive.             *)
(***************************************************************************)
CanonicalAt(t, p, word) ==
    LET b == p + Len(word) + 1
        c == SkipDigits(t, b)
    IN  /\ b - 1 <= Len(t)
        /\ SubSeq(t, p, b - 2) = word
        /\ t[b - 1] = " "
        /\ c > b
        /\ c <= Len(t)
        /\ t[c] = ":"

(***************************************************************************)
(* re.sub(r'(?<!^)(?=<word> \d+:)', '\n\n', t): two newlines inserted      *)
(* before every canonical marker that is not at the start of the string.   *)
(***************************************************************************)
RECURSIVE InsertBreaksFrom(_, _, _)
InsertBreaksFrom(t, p, word) ==
    IF p > Len(t) THEN <<>>
    ELSE (IF p > 1 /\ CanonicalAt(t, p, word) THEN <<NL, NL>> ELSE <<>>)
         \o <<t[p]>> \o InsertBreaksFrom(t, p + 1, word)

InsertBreaks(t, word) == InsertBreaksFrom(t, 1, word)

(***************************************************************************)
(* What a call returns: a value, or the exception it raised.               *)
(***************************************************************************)
Returned(v) == [ok |-> TRUE, val |-> v, exc |-> "none"]
Raised(e) == [ok |-> FALSE, val |-> <<>>, exc |-> e]

\* the message a stage of src/app.py logs before it raises again; src/main.py logs nothing
StageLog(s, msg) == IF s = "app" THEN Append(log, msg) ELSE log

\* the log after a call of format_speaker_labels with result r
FormatLog(s, r) == IF r.ok THEN log ELSE StageLog(s, "Formatlashda xatolik")

\* compiling the marker pattern, whose "(?i)" is not at its start
CompileMarkerPattern(policy) ==
    IF policy = "error" THEN Raised("re.error") ELSE Returned(<<>>)

(***************************************************************************)
(* AudioProcessor.format_speaker_labels of src/app.py: strip, collapse,    *)
(* canonicalize, separate; an exception is logged and raised again.        *)
(***************************************************************************)
app_format_speaker_labels(t, policy) ==
    LET t1 == CollapseNewlines(Strip(t))
        t2 == CanonicalizeMarkers(t1, CanonicalWord("app"))
        t3 == InsertBreaks(t2, CanonicalWord("app"))
    IN  IF CompileMarkerPattern(policy).ok THEN Returned(t3)
        ELSE CompileMarkerPattern(policy)

(***************************************************************************)
(* format_speaker_labels of src/main.py: canonicalize, separate.           *)
(***************************************************************************)
main_format_speaker_labels(t, policy) ==
    LET t2 == CanonicalizeMarkers(t, CanonicalWord("main"))
        t3 == InsertBreaks(t2, CanonicalWord("main"))
    IN  IF CompileMarkerPattern(policy).ok THEN Returned(t3)
        ELSE CompileMarkerPattern(policy)

format_speaker_labels(s, t, policy) ==
    IF s = "app" THEN app_format_speaker_labels(t, policy)
    ELSE main_format_speaker_labels(t, policy)


(***************************************************************************)
(* The normalizer on its own: Init draws the input, the actions apply      *)
(* format_speaker_labels once and once more to its own output.             *)
(***************************************************************************)
MaxPieces == 3

Pieces ==
    { <<"[", "S", "p", "e", "a", "k", "e", "r", " ", "1", "]", ":">>,
      <<"S", "p", "e", "a", "k", "e", "r", "2", ":">>,
      <<"s", "P", "E", "A", "K", "E", "R", NL, "3", "0", "", ":">>,
      <<"S", "p", "e", "a", "k", "e", "r", " ", "3", ":">>,
      <<"S", "u", "x", "b", "a", "t", "d", "o", "s", "h", " ", "4", ":">>,
      <<"s", "p", "e", "a", "k", "e", "r">>,
      <<" ", "h", "i">>,
      <<"b", "y", "e">>,
      <<"5", ":">>,
      <<"[">>,
      <<" ">>,
      <<" ">>,
      <<NL>>,
      <<NL, NL>> }

\* the spec's scenario  "[Speaker 1]: hi\nSpeaker2:bye"
Scenario ==
    <<"[", "S", "p", "e", "a", "k", "e", "r", " ", "1", "]", ":", " ", "h", "i", NL,
      "S", "p", "e", "a", "k", "e", "r", "2", ":", "b", "y", "e">>

RECURSIVE Concat(_)
Concat(ps) == IF ps = <<>> THEN <<>> ELSE Head(ps) \o Concat(Tail(ps))

Inputs ==
    {Concat(ps) : ps \in UNION {[1..n -> Pieces] : n \in 0..MaxPieces}} \cup {Scenario}

NotRun == [ok |-> FALSE, val |-> <<>>, exc |-> "not run"]

NoLocals ==
    [transcript |-> <<>>, diarized |-> <<>>, formatted |-> <<>>, uzbek |-> <<>>,
     summary |-> <<>>]

\* the script is not running
PIdle ==
    /\ apiKey = "present"
    /\ pc = "not started"
    /\ tempExists = FALSE
    /\ tempPathBound = FALSE
    /\ calls = <<>>
    /\ loc = NoLocals
    /\ exc = "none"
    /\ shown = {}
    /\ log = <<>>

NInit ==
    /\ PIdle
    /\ script \in Scripts
    /\ reInlineFlag \in InlineFlagPolicies
    /\ text \in Inputs
    /\ npc = "ready"
    /\ res1 = NotRun
    /\ res2 = NotRun

\* normalize(s)
FormatOnce ==
    /\ npc = "ready"
    /\ res1' = format_speaker_labels(script, text, reInlineFlag)
    /\ log' = FormatLog(script, format_speaker_labels(script, text, reInlineFlag))
    /\ npc' = "once"
    /\ UNCHANGED <<script, reInlineFlag, text, res2>>
    /\ UNCHANGED <<apiKey, pc, tempExists, tempPathBound, calls, loc, exc, shown>>

\* normalize(normalize(s)), when the first call returned
FormatTwice ==
    /\ npc = "once"
    /\ res1.ok
    /\ res2' = format_speaker_labels(script, res1.val, reInlineFlag)
    /\ log' = FormatLog(script, format_speaker_labels(script, res1.val, reInlineFlag))
    /\ npc' = "twice"
    /\ UNCHANGED <<script, reInlineFlag, text, res1>>
    /\ UNCHANGED <<apiKey, pc, tempExists, tempPathBound, calls, loc, exc, shown>>

NNext == FormatOnce \/ FormatTwice

SpecNorm == NInit /\ [][NNext]_vars


(***************************************************************************)
(* The script run.  The statements of a run in program order; the run of   *)
(* src/app.py is main(), the run of src/main.py is the module body.        *)
(***************************************************************************)
Program(s) ==
    IF s = "app"
    THEN <<"load_env", "page_config", "title", "intro", "uploader", "spinner",
           "tmp_create", "tmp_write",
           "transcribe", "identify", "format", "convert", "summary",
           "cols_text", "head_formatted", "show_formatted", "head_uzbek", "show_uzbek",
           "head_summary", "show_summary", "cols_download", "dl_original", "dl_uzbek",
           "finally", "sidebar_head", "sidebar", "done">>
    ELSE <<"load_env", "title", "intro", "uploader", "spinner",
           "tmp_create", "tmp_write",
           "transcribe", "identify", "format",
           "head_diarized", "show_diarized", "head_analysis", "summary",
           "show_analysis", "dl_diarized", "dl_raw",
           "finally", "sidebar", "done">>

\* the statement after p
After(s, p) ==
    LET k == CHOOSE i \in 1..Len(Program(s)) : Program(s)[i] = p
    IN  Program(s)[k + 1]

\* the statements inside the try statement: src/main.py writes the temporary
\* file before it, src/app.py inside it
TryBody(s) ==
    IF s = "app"
    THEN {"tmp_create", "tmp_write",
          "transcribe", "identify", "format", "convert", "summary",
          "cols_text", "head_formatted", "show_formatted", "head_uzbek", "show_uzbek",
          "head_summary", "show_summary", "cols_download", "dl_original", "dl_uzbek"}
    ELSE {"transcribe", "identify", "format",
          "head_diarized", "show_diarized", "head_analysis", "summary",
          "show_analysis", "dl_diarized", "dl_raw"}

\* where an exception raised at p goes: to the except clause from inside the
\* try statement, out of the script from anywhere else
HandlerOf(s, p) == IF p \in TryBody(s) THEN "except" ELSE "crashed"

\* the first statement after the if audio_file: block
AfterUpload(s) == IF s = "app" THEN "sidebar_head" ELSE "sidebar"

\* the run is over
Ended == {"done", "crashed", "fatal"}

\* the element a display statement renders
ElementOf(p) ==
    CASE p = "show_formatted" -> "formatted"
      [] p = "show_uzbek" -> "uzbek"
      [] p = "show_summary" -> "summary"
      [] p = "show_diarized" -> "diarized"
      [] p = "show_analysis" -> "analysis"
      [] OTHER -> p

\* the statements that render a result of the run: a text area, st.markdown,
\* st.write, a download button
ResultStatements ==
    {"show_formatted", "show_uzbek", "show_summary", "dl_original", "dl_uzbek",
     "show_diarized", "show_analysis", "dl_diarized", "dl_raw"}

\* the other streamlit statements: page set-up, titles, the spinner, columns,
\* subheaders, the sidebar
LayoutStatements ==
    {"page_config", "title", "intro", "spinner",
     "cols_text", "head_formatted", "head_uzbek", "head_summary", "cols_download",
     "head_diarized", "head_analysis",
     "sidebar_head", "sidebar"}

DisplayStatements == ResultStatements \cup LayoutStatements

\* the elements that carry a result of the run
ResultElements == {ElementOf(p) : p \in ResultStatements}

(***************************************************************************)
(* What the remote services and the file system may answer.                *)
(***************************************************************************)
AudioPath == <<"t", "m", "p">>
Transcripts == {<<"t", "1">>, <<"t", "2">>}
DiarizedTexts ==
    { Scenario,
      <<"S", "p", "e", "a", "k", "e", "r", " ", "1", ":", " ", "a", NL, NL,
        "S", "p", "e", "a", "k", "e", "r", " ", "2", ":", " ", "b">>,
      <<"h", "i">> }
UzbekTexts == {<<"u", "1">>, <<"u", "2">>}
Summaries == {<<"s", "1">>, <<"s", "2">>}

FileErrors == {"OSError"}
DisplayErrors == {"StreamlitAPIException"}

\* what the client library raises: a call made without a credential is refused,
\* a call made with one may be refused as well (the key is not valid) or fail
LibraryErrors(key) ==
    IF key = "absent" THEN {"AuthenticationError"} ELSE {"AuthenticationError", "APIError"}

\* the transcription call raises, or its answer has no "text" (response["text"])
TranscribeCallErrors(key) ==
    IF key = "absent" THEN LibraryErrors(key) ELSE LibraryErrors(key) \cup {"KeyError"}

\* what the transcription stage raises: open(audio_path, "rb") fails before the
\* library is called, or the call fails
TranscribeErrors(key) == FileErrors \cup TranscribeCallErrors(key)

\* reading the text of a completion's answer that has no choices:
\* response.choices[0].message.content in src/app.py,
\* response["choices"][0]["message"]["content"] in src/main.py
MalformedAnswerErrors(s) ==
    IF s = "app" THEN {"AttributeError", "IndexError", "TypeError"}
    ELSE {"KeyError", "IndexError", "TypeError"}

\* what a completion stage raises
CompletionErrors(s, key) ==
    IF key = "absent" THEN LibraryErrors(key)
    ELSE LibraryErrors(key) \cup MalformedAnswerErrors(s)
RemoteAnswers(key, outs) == IF key = "absent" THEN {} ELSE outs

(***************************************************************************)
(* The input each stage is given.                                          *)
(***************************************************************************)
IdentifyInput(l) == l.transcript
FormatInput(l) == l.diarized
ConvertInput(l) == l.formatted
SummaryInput(s, l) == IF s = "app" THEN l.uzbek ELSE l.formatted

(***************************************************************************)
(* A stage call at the current statement: it returns one of outs, kept in  *)
(* loc[field], or raises one of errs, which the stage logs (src/app.py)    *)
(* and raises again.                                                       *)
(***************************************************************************)
StageReturns(name, input, v, field) ==
    /\ calls' = Append(calls, [stage |-> name, input |-> input, ok |-> TRUE,
                               out |-> v, exc |-> "none"])
    /\ loc' = [loc EXCEPT ![field] = v]
    /\ pc' = After(script, pc)
    /\ UNCHANGED <<exc, log>>

\* a slip: the stage logs the exception and does not raise it again
StageRaisesSwallowed(name, input, e, msg) ==
    /\ calls' = Append(calls, [stage |-> name, input |-> input, ok |-> FALSE,
                               out |-> <<>>, exc |-> e])
    /\ log' = StageLog(script, msg)
    /\ pc' = After(script, pc)
    /\ UNCHANGED <<exc, loc>>

StageRaises(name, input, e, msg) ==
    /\ calls' = Append(calls, [stage |-> name, input |-> input, ok |-> FALSE,
                               out |-> <<>>, exc |-> e])
    /\ exc' = e
    /\ log' = StageLog(script, msg)
    /\ pc' = HandlerOf(script, pc)
    /\ UNCHANGED loc

\* the stage raises before it calls the library: no call is made
StageRaisesBeforeCall(e, msg) ==
    /\ calls' = calls
    /\ exc' = e
    /\ log' = StageLog(script, msg)
    /\ pc' = HandlerOf(script, pc)
    /\ UNCHANGED loc

\* what a run does not change: the script, the interpreter, the environment
env == <<script, reInlineFlag, apiKey, text, npc, res1, res2>>

PInit ==
    /\ script \in Scripts
    /\ reInlineFlag \in InlineFlagPolicies
    /\ apiKey \in {"absent", "present"}
    /\ pc = "load_env"
    /\ tempExists = FALSE
    /\ tempPathBound = FALSE
    /\ calls = <<>>
    /\ loc = NoLocals
    /\ exc = "none"
    /\ shown = {}
    /\ log = <<>>
    /\ text = <<>>
    /\ npc = "idle"
    /\ res1 = NotRun
    /\ res2 = NotRun

\* load_dotenv(), os.getenv: src/app.py raises ValueError without a key,
\* src/main.py assigns openai.api_key whatever it got
load_env ==
    /\ pc = "load_env"
    /\ UNCHANGED env
    /\ IF script = "app" /\ apiKey = "absent"
       THEN pc' = "fatal" /\ exc' = "ValueError"
       ELSE pc' = After(script, pc) /\ exc' = exc
    /\ UNCHANGED <<tempExists, tempPathBound, calls, loc, shown, log>>

\* st.file_uploader, which holds a file or not; if audio_file:
file_uploader ==
    /\ pc = "uploader"
    /\ UNCHANGED env
    /\ \/ /\ shown' = shown \cup {"uploader"}
          /\ \E uploadedFile \in BOOLEAN :
                pc' = IF uploadedFile THEN After(script, pc) ELSE AfterUpload(script)
          /\ exc' = exc
       \/ \E e \in DisplayErrors :
          /\ shown' = shown
          /\ pc' = HandlerOf(script, pc)
          /\ exc' = e
    /\ UNCHANGED <<tempExists, tempPathBound, calls, loc, log>>

\* NamedTemporaryFile(delete=False, ...)
create_temp ==
    /\ pc = "tmp_create"
    /\ UNCHANGED env
    /\ \/ /\ tempExists' = TRUE
          /\ pc' = After(script, pc)
          /\ exc' = exc
       \/ \E e \in FileErrors :
          /\ tempExists' = tempExists
          /\ pc' = HandlerOf(script, pc)
          /\ exc' = e
    /\ UNCHANGED <<tempPathBound, calls, loc, shown, log>>

\* temp_file.write(...); temp_path = temp_file.name; leaving the with block
\* closes the file and, with delete=False, keeps it.  The write may raise, before
\* the path is assigned, or the close may (the buffered data is written then),
\* after the path is assigned
write_temp ==
    /\ pc = "tmp_write"
    /\ UNCHANGED env
    /\ \/ /\ tempPathBound' = TRUE
          /\ pc' = After(script, pc)
          /\ exc' = exc
       \/ \E e \in FileErrors :
          /\ tempPathBound' = tempPathBound
          /\ pc' = HandlerOf(script, pc)
          /\ exc' = e
       \/ \E e \in FileErrors :
          /\ tempPathBound' = TRUE
          /\ pc' = HandlerOf(script, pc)
          /\ exc' = e
    /\ UNCHANGED <<tempExists, calls, loc, shown, log>>

\* open(audio_path, "rb"), then openai.Audio.transcribe on the open file
transcribe_audio ==
    /\ pc = "transcribe"
    /\ UNCHANGED env
    /\ \/ \E e \in TranscribeErrors(apiKey) \cap FileErrors :
             StageRaisesBeforeCall(e, "Yozib olishda xatolik")
       \/ \E v \in RemoteAnswers(apiKey, Transcripts) :
             StageReturns("transcription", AudioPath, v, "transcript")
       \/ \E e \in TranscribeErrors(apiKey) \cap TranscribeCallErrors(apiKey) :
             StageRaises("transcription", AudioPath, e, "Yozib olishda xatolik")
    /\ UNCHANGED <<tempExists, tempPathBound, shown>>

\* openai.ChatCompletion.create with the diarization prompt
identify_speakers ==
    /\ pc = "identify"
    /\ UNCHANGED env
    /\ \/ \E v \in RemoteAnswers(apiKey, DiarizedTexts) :
             StageReturns("segmentation", IdentifyInput(loc), v, "diarized")
       \/ \E e \in CompletionErrors(script, apiKey) :
             StageRaises("segmentation", IdentifyInput(loc), e,
                         "So'zlovchilarni aniqlashda xatolik")
    /\ UNCHANGED <<tempExists, tempPathBound, shown>>

\* format_speaker_labels(diarized_text)
format_labels ==
    /\ pc = "format"
    /\ UNCHANGED env
    /\ LET r == format_speaker_labels(script, FormatInput(loc), reInlineFlag)
       IN  IF r.ok
           THEN StageReturns("normalizer", FormatInput(loc), r.val, "formatted")
           ELSE StageRaises("normalizer", FormatInput(loc), r.exc, "Formatlashda xatolik")
    /\ UNCHANGED <<tempExists, tempPathBound, shown>>

\* openai.ChatCompletion.create with the conversion prompt (src/app.py only)
convert_to_uzbek ==
    /\ pc = "convert"
    /\ UNCHANGED env
    /\ \/ \E v \in RemoteAnswers(apiKey, UzbekTexts) :
             StageReturns("localization", ConvertInput(loc), v, "uzbek")
       \/ \E e \in CompletionErrors(script, apiKey) :
             StageRaises("localization", ConvertInput(loc), e,
                         "O'zbek tiliga o'girishda xatolik")
    /\ UNCHANGED <<tempExists, tempPathBound, shown>>

\* openai.ChatCompletion.create with the summary / analysis prompt
create_summary ==
    /\ pc = "summary"
    /\ UNCHANGED env
    /\ \/ \E v \in RemoteAnswers(apiKey, Summaries) :
             StageReturns("summarization", SummaryInput(script, loc), v, "summary")
       \/ \E e \in CompletionErrors(script, apiKey) :
             StageRaises("summarization", SummaryInput(script, loc), e,
                         "Tahlil yaratishda xatolik")
    /\ UNCHANGED <<tempExists, tempPathBound, shown>>

\* one streamlit statement: it renders its element or raises
display ==
    /\ pc \in DisplayStatements
    /\ UNCHANGED env
    /\ \/ /\ shown' = shown \cup {ElementOf(pc)}
          /\ pc' = After(script, pc)
          /\ exc' = exc
       \/ \E e \in DisplayErrors :
          /\ shown' = shown
          /\ pc' = HandlerOf(script, pc)
          /\ exc' = e
    /\ UNCHANGED <<tempExists, tempPathBound, calls, loc, log>>

\* except Exception as e: st.error(...), then logger.error(...) in src/app.py.
\* st.error may raise as any streamlit call may: the new exception leaves the
\* except clause with no message shown and nothing logged
except_handler ==
    /\ pc = "except"
    /\ UNCHANGED env
    /\ \/ /\ shown' = shown \cup {"error"}
          /\ log' = StageLog(script, "Qayta ishlashda xatolik")
          /\ exc' = exc
       \/ \E e \in DisplayErrors :
          /\ shown' = shown
          /\ log' = log
          /\ exc' = e
    /\ pc' = "finally"
    /\ UNCHANGED <<tempExists, tempPathBound, calls, loc>>

\* an exception is on its way out of the try statement while the finally block
\* runs: the except clause was entered and did not complete
InFlight(e, sh) == e # "none" /\ "error" \notin sh

\* the file the finally block removes: src/app.py needs temp_path assigned,
\* src/main.py has temp_file_path assigned whenever its try statement runs
CleanupRemoves(s, bound, exists) ==
    IF s = "app" THEN bound /\ exists ELSE exists

\* finally: os.unlink of the temporary file; nothing catches what it raises, and
\* an exception in flight goes on after the block, uncaught
finally_cleanup ==
    /\ pc = "finally"
    /\ UNCHANGED env
    /\ \/ /\ tempExists' = IF CleanupRemoves(script, tempPathBound, tempExists)
                           THEN FALSE ELSE tempExists
          /\ pc' = IF InFlight(exc, shown) THEN "crashed" ELSE After(script, pc)
          /\ exc' = exc
       \/ /\ CleanupRemoves(script, tempPathBound, tempExists)
          /\ \E e \in FileErrors :
                /\ tempExists' = tempExists
                /\ pc' = "crashed"
                /\ exc' = e
    /\ UNCHANGED <<tempPathBound, calls, loc, shown, log>>

PNext ==
    \/ load_env
    \/ file_uploader
    \/ create_temp
    \/ write_temp
    \/ transcribe_audio
    \/ identify_speakers
    \/ format_labels
    \/ convert_to_uzbek
    \/ create_summary
    \/ display
    \/ except_handler
    \/ finally_cleanup

Spec == PInit /\ [][PNext]_vars


(***************************************************************************)
(* Properties of the normalizer, checked under SpecNorm.                   *)
(***************************************************************************)
Word == CanonicalWord(script)

\* the digit groups of the leftmost non-overlapping marker variants of t
RECURSIVE MarkerDigitsFrom(_, _)
MarkerDigitsFrom(t, i) ==
    IF i > Len(t) THEN <<>>
    ELSE LET m == MatchMarkerAt(t, i)
         IN  IF m.ok THEN <<m.digits>> \o MarkerDigitsFrom(t, m.next)
             ELSE MarkerDigitsFrom(t, i + 1)

\* the digit groups of the canonical markers of t
RECURSIVE CanonicalDigitsFrom(_, _, _)
CanonicalDigitsFrom(t, p, word) ==
    IF p > Len(t) THEN <<>>
    ELSE IF CanonicalAt(t, p, word)
         THEN <<SubSeq(t, p + Len(word) + 1, SkipDigits(t, p + Len(word) + 1) - 1)>>
              \o CanonicalDigitsFrom(t, p + 1, word)
         ELSE CanonicalDigitsFrom(t, p + 1, word)

HasCanonical(t, word) == \E p \in 1..Len(t) : CanonicalAt(t, p, word)
HasVariant(t) == \E i \in 1..Len(t) : MatchMarkerAt(t, i).ok

\* every marker variant found in t is a canonical marker
OnlyCanonical(t, word) ==
    \A i \in 1..Len(t) : MatchMarkerAt(t, i).ok => CanonicalAt(t, i, word)

\* the characters before index p are exactly two newlines, not three
ExactlyTwoNewlinesBefore(t, p) ==
    /\ p >= 3
    /\ t[p - 1] = NL
    /\ t[p - 2] = NL
    /\ (p >= 4 => t[p - 3] # NL)

\* the output the spec gives for Scenario:  "<Word> 1: hi\n\n<Word> 2:bye"
ScenarioOutput(word) ==
    word \o <<" ", "1", ":", " ", "h", "i", NL, NL>> \o word \o <<" ", "2", ":", "b", "y", "e">>

\* C1: idempotence: normalize(normalize(s)) = normalize(s) for every s.
C1_Idempotent == npc = "twice" => res2 = res1

\* C2: paragraph property: in the output every canonical marker not at position 0
\* is preceded by exactly two newlines, never more and never fewer; the scenario
\* "[Speaker 1]: hi\nSpeaker2:bye" gives "<Word> 1: hi\n\n<Word> 2:bye".
C2_ParagraphProperty ==
    (npc = "once" /\ res1.ok) =>
        /\ \A p \in 2..Len(res1.val) :
              CanonicalAt(res1.val, p, Word) => ExactlyTwoNewlinesBefore(res1.val, p)
        /\ (text = Scenario => res1.val = ScenarioOutput(Word))

\* C3: marker canonicalization: the normalizer rewrites every recognised marker
\* variant to "<Word> N:" with the digits N unchanged, and leaves no recognised
\* variant in non-canonical form in the output.
C3_Canonicalization ==
    npc = "once" =>
        /\ res1.ok
        /\ (script = "main" => OnlyCanonical(res1.val, Word))
        /\ (script = "app" => ~HasVariant(res1.val))
        /\ (~HasCanonical(text, Word) \/ script = "main" =>
               CanonicalDigitsFrom(res1.val, 1, Word) = MarkerDigitsFrom(text, 1))

\* C4: on a string with no speaker marker the normalizer only replaces each run
\* of three or more newlines by two; every other character, leading and trailing
\* whitespace included, is unchanged.
C4_OnlyBlankRuns ==
    (npc = "once" /\ ~HasVariant(text) /\ ~HasCanonical(text, Word)) =>
        /\ res1.ok
        /\ res1.val = CollapseNewlines(text)

\* C5: the normalizer is total: it returns a string for every input and raises
\* no error; the empty string is mapped to the empty string.
C5_Total ==
    npc = "once" =>
        /\ res1.ok
        /\ (text = <<>> => res1.val = <<>>)

(***************************************************************************)
(* What the normalizer does do.  With "(?i)" accepted in mid-pattern       *)
(* (Python <= 3.10) it returns, canonicalizes as C3 says, puts at least    *)
(* two newlines before every canonical marker that is not first, and on    *)
(* marker-free text strips and collapses (src/app.py) or changes nothing   *)
(* (src/main.py).  With "(?i)" refused (Python >= 3.11) every call raises  *)
(* re.error.                                                               *)
(***************************************************************************)
NormalizerWhenFlagAccepted ==
    (npc = "once" /\ reInlineFlag = "global") =>
        /\ C3_Canonicalization
        /\ \A p \in 2..Len(res1.val) :
              CanonicalAt(res1.val, p, Word) =>
                  p >= 3 /\ res1.val[p - 1] = NL /\ res1.val[p - 2] = NL
        /\ (~HasVariant(text) /\ ~HasCanonical(text, Word) =>
               res1.val = IF script = "app" THEN CollapseNewlines(Strip(text)) ELSE text)

NormalizerWhenFlagRefused ==
    (npc = "once" /\ reInlineFlag = "error") => res1 = Raised("re.error")

(***************************************************************************)
(* Properties of the script run, checked under Spec.                       *)
(***************************************************************************)
\* the stages of each script's run, in the fixed order; src/main.py has no
\* localization stage
Pipeline(s) ==
    IF s = "app"
    THEN <<"transcription", "segmentation", "normalizer", "localization", "summarization">>
    ELSE <<"transcription", "segmentation", "normalizer", "summarization">>

TranscriptionFailed ==
    /\ Len(calls) >= 1
    /\ calls[1].stage = "transcription"
    /\ ~calls[1].ok

SomeStageFailed == \E k \in 1..Len(calls) : ~calls[k].ok

AllStagesReturned ==
    /\ Len(calls) = Len(Pipeline(script))
    /\ \A k \in 1..Len(calls) : calls[k].ok

\* C6 as stated: a failed transcription call surfaces as a TranscriptionError
\* and no downstream stage is executed.
C6_TranscriptionError ==
    TranscriptionFailed => (exc = "TranscriptionError" /\ Len(calls) = 1)

\* C6 as amended: a failed transcription call surfaces as the exception the call
\* raised, unchanged (the code defines no TranscriptionError): that exception is
\* what the script's except clause receives, and no downstream stage is executed.
C6_TranscriptionFailureStops ==
    TranscriptionFailed =>
        /\ Len(calls) = 1
        /\ calls[1].exc \in TranscribeCallErrors(apiKey)
        /\ pc \in {"except", "finally", "sidebar_head", "sidebar", "done", "crashed"}
        /\ (pc = "except" => exc = calls[1].exc)
        /\ \A f \in {"diarized", "formatted", "uzbek", "summary"} : loc[f] = NoLocals[f]

C6_Witness == TranscriptionFailed /\ pc = "done" /\ script = "app"

\* C7: in every run that creates the temporary copy of the upload, the file no
\* longer exists when the run ends, whichever step failed.
C7_TempFileRemoved == pc \in Ended => ~tempExists

\* C8: without the API credential the program stops with a fatal startup error
\* before any UI element is set up and before any remote call is made.
C8_FatalWithoutCredential ==
    apiKey = "absent" =>
        /\ pc \in {"load_env", "fatal"}
        /\ shown = {}
        /\ calls = <<>>

\* C9: each stage is invoked at most once and in the fixed order transcription,
\* segmentation, normalizer, localization, summarization; a stage starts only
\* after every preceding stage returned successfully, its input is the previous
\* stage's output, and a failed stage is never invoked again.
C9_StageOrder ==
    LET order == <<"transcription", "segmentation", "normalizer",
                   "localization", "summarization">>
    IN  /\ Len(calls) <= Len(order)
        /\ \A k \in 1..Len(calls) :
              /\ calls[k].stage = order[k]
              /\ (k > 1 => calls[k - 1].ok /\ calls[k].input = calls[k - 1].out)

\* C10: in a run in which a stage raised, the UI shows the failure message and
\* none of the run's result strings or download buttons; results are displayed
\* only in runs where every stage returned successfully.
C10_NoPartialOutput ==
    pc \in Ended =>
        /\ (SomeStageFailed => "error" \in shown /\ shown \cap ResultElements = {})
        /\ (shown \cap ResultElements # {} => AllStagesReturned)


(***************************************************************************)
(* What the scripts do do.  src/app.py stops without a credential.  The    *)
(* stages a script invokes are a prefix of its own pipeline, each after    *)
(* the one before returned and with its output as input; src/app.py's      *)
(* pipeline is the fixed order.  src/app.py shows no result of a run in     *)
(* which a stage raised, and results only after every stage returned; the  *)
(* failure message is shown unless st.error raises.  The temporary file is *)
(* gone in every run that reaches its last statement with the path         *)
(* assigned.  Once an exception is raised, at open() included, no stage is *)
(* invoked.                                                                *)
(***************************************************************************)
AppFatalWithoutCredential == script = "app" => C8_FatalWithoutCredential

StageOrderOfScript ==
    /\ Len(calls) <= Len(Pipeline(script))
    /\ \A k \in 1..Len(calls) :
          /\ calls[k].stage = Pipeline(script)[k]
          /\ (k > 1 => calls[k - 1].ok /\ calls[k].input = calls[k - 1].out)

AppStageOrder == script = "app" => C9_StageOrder

AppNoPartialResults ==
    (script = "app" /\ pc \in Ended) =>
        /\ (SomeStageFailed => shown \cap ResultElements = {})
        /\ (shown \cap ResultElements # {} => AllStagesReturned)
        /\ (SomeStageFailed /\ pc = "done" => "error" \in shown)

TempFileRemovedOnceWritten == (pc = "done" /\ tempPathBound) => ~tempExists

NoStageAfterException == [][exc # "none" => calls' = calls]_vars

====
